---- MODULE Spec2Model ----
(***************************************************************************)
(* Verification model of hcipy:                                            *)
(*   optics/optical_element.py  OpticalElement and Detector interfaces     *)
(*   aperture/generic.py        aperture factories and sampling functions  *)
(*   util/io.py                 reading and writing grids, fields, fits    *)
(*                                                                         *)
(* Lengths are integers in one common unit.  Trigonometric values are      *)
(* exact algebraic numbers (no rounding), so every comparison of the model *)
(* is the comparison of the real numbers the code approximates in floats.  *)
(***************************************************************************)
EXTENDS Integers, Sequences, FiniteSets, TLC

VARIABLES ecall,                              \* optical element: the last call and its outcome
          ctor, aperture, grid, field, out, err,  \* aperture factories and sampling
          acc, exposures, dcall,              \* detector
          disk, io                            \* persistence

vars == <<ecall, ctor, aperture, grid, field, out, err,
          acc, exposures, dcall, disk, io>>

elemVars == <<ecall>>
apVars   == <<ctor, aperture, grid, field, out, err>>
detVars  == <<acc, exposures, dcall>>
ioVars   == <<disk, io>>

----------------------------------------------------------------------------
(* Bounds of the model *)

MaxWavefront == 9      \* wavefront amplitudes 0..MaxWavefront
MaxGain      == 3      \* transmissions of the concrete elements
MaxCoord     == 3      \* grid coordinates start in -MaxCoord..MaxCoord
MaxPts       == 2      \* points of a grid
MaxDiam      == 10     \* diameters of circular apertures
MaxSize      == 3      \* edge lengths of rectangular apertures
MaxCircum    == 3      \* circumscribed diameters of polygons
MaxAmp       == 1      \* amplitude of a wavefront at one detector pixel
MaxExposures == 2      \* integrate calls between two resets
MaxFiles     == 1      \* files on the disk

----------------------------------------------------------------------------
(* Python call outcomes: a normal return of a value or a raised exception *)

Return(v) == [kind |-> "return", val |-> v, exc |-> "none"]

Raise(e) == [kind |-> "raise", val |-> 0, exc |-> e]

NoCall == [op |-> "none", elem |-> [kind |-> "base", gain |-> 0], wavefront |-> 0,
           fwd |-> Return(0), outcome |-> Return(0)]

----------------------------------------------------------------------------
(* optics/optical_element.py: OpticalElement *)

\* The elements: the base class itself, and concrete subclasses that override
\* forward and backward (here an element multiplying the amplitude by a gain).
Elements == {[kind |-> "base", gain |-> 0]} \cup
            {[kind |-> "apodizer", gain |-> t] : t \in 0..MaxGain}

Wavefronts == 0..MaxWavefront

\* forward(self, wavefront): the base raises NotImplementedError
forward(elem, wavefront) ==
    IF elem.kind = "base" THEN Raise("NotImplementedError")
    ELSE Return(elem.gain * wavefront)

\* backward(self, wavefront): the base raises NotImplementedError
backward(elem, wavefront) ==
    IF elem.kind = "base" THEN Raise("NotImplementedError")
    ELSE Return(elem.gain * wavefront)

\* The Python statement `raise v`: v is a wavefront, not an exception, so the
\* statement fails with TypeError (exceptions must derive from BaseException).
RaiseStatement(v) == Raise("TypeError")

\* __call__(self, wavefront): `raise self.forward(wavefront)`.  An exception
\* of forward propagates; a returned value is handed to `raise`.
call(elem, wavefront) ==
    LET r == forward(elem, wavefront)
    IN  IF r.kind = "raise" THEN r ELSE RaiseStatement(r.val)

ElementForward ==
    \E e \in Elements, w \in Wavefronts :
        ecall' = [op |-> "forward", elem |-> e, wavefront |-> w,
                  fwd |-> forward(e, w), outcome |-> forward(e, w)]

ElementBackward ==
    \E e \in Elements, w \in Wavefronts :
        ecall' = [op |-> "backward", elem |-> e, wavefront |-> w,
                  fwd |-> forward(e, w), outcome |-> backward(e, w)]

ElementCall ==
    \E e \in Elements, w \in Wavefronts :
        ecall' = [op |-> "__call__", elem |-> e, wavefront |-> w,
                  fwd |-> forward(e, w), outcome |-> call(e, w)]

----------------------------------------------------------------------------
(* Exact real arithmetic for numpy's cos, sin and pi.                      *)
(*                                                                         *)
(* Angles are integers in units of pi/120 (1.5 degrees).  The cosines of   *)
(* the angles a regular polygon of n sides needs lie in a field            *)
(* Q(alpha, s) with alpha = sqrt(m) and s = sqrt(t0 + t1*alpha):           *)
(*   "A": alpha = sqrt 2, s = sqrt 3             multiples of 15 degrees   *)
(*   "B": alpha = sqrt 5, s = sqrt(10 + 2 sqrt 5) multiples of 18 degrees  *)
(*   "C": alpha = sqrt 2, s = sqrt(2 + sqrt 2)    multiples of 22.5 degrees*)
(* A number is [num |-> <<a, b, c, d>>, den |-> q] and stands for          *)
(* (a + b*alpha + c*s + d*alpha*s) / q, with q > 0.                        *)

Pi == 120

\* The polygons whose angles are exact in one of the three fields
ExactSides == {3, 4, 5, 6, 8, 10, 12}

FieldOf(n) == IF n \in {5, 10} THEN "B" ELSE IF n = 8 THEN "C" ELSE "A"

RadM(F) == IF F = "B" THEN 5 ELSE 2

RadT(F) == IF F = "A" THEN <<3, 0>> ELSE IF F = "B" THEN <<10, 2>> ELSE <<2, 1>>

Sgn(i) == IF i > 0 THEN 1 ELSE IF i < 0 THEN -1 ELSE 0

AbsInt(i) == IF i < 0 THEN -i ELSE i

\* x / y > sqrt(m) for integers x >= 0, y > 0 and m not a square, decided
\* on the continued fraction of x / y (no squares of x or y are formed)
RECURSIVE GreaterSqrt(_, _, _)
GreaterSqrt(m, x, y) ==
    LET q == x \div y
        r == x % y
        c == (m - q * q) * y - r * q
    IN  IF q > m THEN TRUE
        ELSE IF q * q > m THEN TRUE
        ELSE IF (q + 1) * (q + 1) <= m THEN FALSE
        ELSE IF r = 0 THEN FALSE
        ELSE c <= 0 \/ ~GreaterSqrt(m, c, r)

\* sign of a + b*sqrt(m), m not a square
Sgn2(m, u) ==
    LET sa == Sgn(u[1])
        sb == Sgn(u[2])
    IN  IF sb = 0 THEN sa
        ELSE IF sa = 0 THEN sb
        ELSE IF sa = sb THEN sa
        ELSE IF GreaterSqrt(m, AbsInt(u[1]), AbsInt(u[2])) THEN sa ELSE sb

\* (a + b*sqrt m) * (c + d*sqrt m)
Mul2(m, u, v) == <<u[1] * v[1] + m * u[2] * v[2], u[1] * v[2] + u[2] * v[1]>>

\* sign of u + v*s for u, v in Q(sqrt m), s = sqrt(t) > 0
SgnNum(F, e) ==
    LET m  == RadM(F)
        u  == <<e[1], e[2]>>
        v  == <<e[3], e[4]>>
        su == Sgn2(m, u)
        sv == Sgn2(m, v)
        uu == Mul2(m, u, u)
        vt == Mul2(m, Mul2(m, v, v), RadT(F))
    IN  IF sv = 0 THEN su
        ELSE IF su = 0 THEN sv
        ELSE IF su = sv THEN su
        ELSE su * Sgn2(m, <<uu[1] - vt[1], uu[2] - vt[2]>>)

Alg(tuple, q) == [num |-> tuple, den |-> q]

AlgInt(k) == Alg(<<k, 0, 0, 0>>, 1)

AlgScale(k, e) == Alg([i \in 1..4 |-> k * e.num[i]], e.den)

AlgNeg(e) == AlgScale(-1, e)

\* e / k for an integer k > 0
AlgDivInt(e, k) == Alg(e.num, e.den * k)

\* e + f over the larger denominator when one divides the other
AlgAdd(e, f) ==
    LET q == IF e.den % f.den = 0 THEN e.den
             ELSE IF f.den % e.den = 0 THEN f.den
             ELSE e.den * f.den
    IN  Alg([i \in 1..4 |-> e.num[i] * (q \div e.den) + f.num[i] * (q \div f.den)], q)

AlgSign(F, e) == SgnNum(F, e.num)

AlgAbs(F, e) == IF AlgSign(F, e) < 0 THEN AlgNeg(e) ELSE e

AlgLess(F, e, f) == AlgSign(F, AlgAdd(f, AlgNeg(e))) > 0

\* cos of the angles of the first quadrant, times 8
CosQ(F, a) ==
    IF a = 0 THEN <<8, 0, 0, 0>>
    ELSE IF a = 60 THEN <<0, 0, 0, 0>>
    ELSE CASE F = "A" /\ a = 10 -> <<0, 2, 0, 2>>      \* (sqrt 6 + sqrt 2)/4
           [] F = "A" /\ a = 20 -> <<0, 0, 4, 0>>      \* sqrt 3 / 2
           [] F = "A" /\ a = 30 -> <<0, 4, 0, 0>>      \* sqrt 2 / 2
           [] F = "A" /\ a = 40 -> <<4, 0, 0, 0>>      \* 1 / 2
           [] F = "A" /\ a = 50 -> <<0, -2, 0, 2>>     \* (sqrt 6 - sqrt 2)/4
           [] F = "B" /\ a = 12 -> <<0, 0, 2, 0>>      \* s / 4
           [] F = "B" /\ a = 24 -> <<2, 2, 0, 0>>      \* (1 + sqrt 5)/4
           [] F = "B" /\ a = 36 -> <<0, 0, -1, 1>>     \* s (sqrt 5 - 1)/8
           [] F = "B" /\ a = 48 -> <<-2, 2, 0, 0>>     \* (sqrt 5 - 1)/4
           [] F = "C" /\ a = 15 -> <<0, 0, 4, 0>>      \* s / 2
           [] F = "C" /\ a = 30 -> <<0, 4, 0, 0>>      \* sqrt 2 / 2
           [] F = "C" /\ a = 45 -> <<0, 0, -4, 4>>     \* s (sqrt 2 - 1)/2

\* np.cos(a)
Cos(F, a) ==
    LET b == a % (2 * Pi)
    IN  IF b <= 60 THEN Alg(CosQ(F, b), 8)
        ELSE IF b <= 120 THEN AlgNeg(Alg(CosQ(F, 120 - b), 8))
        ELSE IF b <= 180 THEN AlgNeg(Alg(CosQ(F, b - 120), 8))
        ELSE Alg(CosQ(F, 240 - b), 8)

\* np.sin(a)
Sin(F, a) == Cos(F, a - 60)

----------------------------------------------------------------------------
(* Grids and fields (the field package, used through grid.is_, grid.coords, *)
(* grid.r, grid.as_ and grid.size, and through Field(values, grid))        *)

\* Directions of polar points: integer vectors of integer length, so that the
\* Cartesian image of a polar point is exact.
Directions == << <<1, 0>>, <<3, 4>>, <<0, 1>>, <<-4, 3>>,
                 <<-1, 0>>, <<-3, -4>>, <<0, -1>>, <<4, -3>> >>

Norm(d) == IF Directions[d][1] = 0 \/ Directions[d][2] = 0 THEN 1 ELSE 5

\* A Cartesian point is <<x, y>>; a polar point is <<r, d>>: radius r, a
\* multiple of Norm(d), in direction Directions[d].
PolarToCartesian(p) ==
    LET k == p[1] \div Norm(p[2])
    IN  <<k * Directions[p[2]][1], k * Directions[p[2]][2]>>

NoGrid == [system |-> "none", pts |-> <<>>]

NoField == [values |-> <<>>, grid |-> NoGrid]

\* grid.is_(system)
is_(g, system) == g.system = system

\* grid.as_('cartesian'): the grid itself when it is Cartesian already, else
\* a new grid of the converted points
as_cartesian(g) ==
    IF is_(g, "cartesian") THEN g
    ELSE [system |-> "cartesian",
          pts |-> [i \in 1..Len(g.pts) |-> PolarToCartesian(g.pts[i])]]

\* grid.size
size(g) == Len(g.pts)

\* Field(values, grid)
Field(values, g) == [values |-> values, grid |-> g]

Coord == -MaxCoord..MaxCoord

Delta == 0..1

CartesianGrids ==
    {[system |-> "cartesian",
      pts |-> [i \in 1..n |-> <<x0 + (i - 1) * dx, y0 + (i - 1) * dy>>]] :
        n \in 0..MaxPts, x0 \in Coord, y0 \in Coord, dx \in Delta, dy \in Delta}

PolarGrids ==
    {[system |-> "polar",
      pts |-> [i \in 1..n |->
                 LET d == ((d0 - 1 + (i - 1) * dd) % 8) + 1
                 IN  <<(k0 + (i - 1) * dk) * Norm(d), d>>]] :
        n \in 0..MaxPts, k0 \in 0..MaxCoord, d0 \in 1..8, dk \in 0..1, dd \in 0..1}

Grids == CartesianGrids \cup PolarGrids

----------------------------------------------------------------------------
(* aperture/generic.py: the factories *)

NoAperture == [kind |-> "none"]

NoCtor == [op |-> "none", args |-> <<>>]

\* circular_aperture(diameter): the closure func with its captured diameter
circular_aperture(diameter) == [kind |-> "circular", diameter |-> diameter]

\* Mutant: a scalar size taken as the half-edge
BroadcastHalfEdge(sz) == IF Len(sz) = 1 THEN <<2 * sz[1], 2 * sz[1]>> ELSE sz

\* size * np.ones(2): a scalar <<s>> is broadcast to <<s, s>>
Broadcast(sz) == IF Len(sz) = 1 THEN <<sz[1], sz[1]>> ELSE sz

\* rectangular_aperture(size, center=None): center is never used
rectangular_aperture(sz) == [kind |-> "rectangular", dim |-> Broadcast(sz)]

\* np.cos(np.pi / num_sides) * circum_diameter / 2
Apothem(num_sides, circum_diameter) ==
    AlgDivInt(AlgScale(circum_diameter, Cos(FieldOf(num_sides), Pi \div num_sides)), 2)

\* Mutant: the odd branch without its last angle
PolygonThetasShort(num_sides) ==
    IF num_sides % 2 = 0
    THEN [k \in 1..(num_sides \div 2) |-> ((k - 1) * Pi) \div (num_sides \div 2)]
    ELSE [k \in 1..(num_sides \div 2) |->
            ((k - 1) * (num_sides - 2) * Pi * 2) \div num_sides]

\* thetas: int(num_sides / 2) angles for an even number of sides,
\* int(num_sides / 2) + 1 angles for an odd one
PolygonThetas(num_sides) ==
    IF num_sides % 2 = 0
    THEN [k \in 1..(num_sides \div 2) |-> ((k - 1) * Pi) \div (num_sides \div 2)]
    ELSE [k \in 1..((num_sides \div 2) + 1) |->
            ((k - 1) * (num_sides - 2) * Pi * 2) \div num_sides]

\* Mutant: a guard that lets two sides through
PolygonRaisesBelowTwo(num_sides) == num_sides < 2

\* the guard of regular_polygon_aperture
PolygonRaises(num_sides) == num_sides < 3

\* regular_polygon_aperture(num_sides, circum_diameter), past the guard
regular_polygon_aperture(num_sides, circum_diameter) ==
    [kind      |-> "polygon",
     num_sides |-> num_sides,
     apothem   |-> Apothem(num_sides, circum_diameter),
     thetas    |-> PolygonThetas(num_sides),
     mask      |-> rectangular_aperture(<<circum_diameter * 4>>)]

\* hexagonal_aperture(circum_diameter)
hexagonal_aperture(circum_diameter) == regular_polygon_aperture(6, circum_diameter)

----------------------------------------------------------------------------
(* aperture/generic.py: the sampling functions *)

\* f.astype('float')
AsFloat(b) == IF b THEN 1 ELSE 0

\* Mutant: a strict comparison on the Cartesian path
CircularValueStrict(diameter, g, i) ==
    IF is_(g, "cartesian")
    THEN AsFloat(4 * (g.pts[i][1] * g.pts[i][1] + g.pts[i][2] * g.pts[i][2])
                   < diameter * diameter)
    ELSE AsFloat(2 * g.pts[i][1] <= diameter)

\* circular_aperture.func: x**2 + y**2 <= (diameter / 2)**2 on a Cartesian
\* grid, grid.r <= diameter / 2 on any other
CircularValue(diameter, g, i) ==
    IF is_(g, "cartesian")
    THEN AsFloat(4 * (g.pts[i][1] * g.pts[i][1] + g.pts[i][2] * g.pts[i][2])
                   <= diameter * diameter)
    ELSE AsFloat(2 * g.pts[i][1] <= diameter)

CircularFunc(ap, g) ==
    [field |-> Field([i \in 1..size(g) |-> CircularValue(ap.diameter, g, i)], g),
     out   |-> <<>>]

\* (np.abs(x) <= dim[0]/2) * (np.abs(y) <= dim[1]/2) at one Cartesian point
RectangularValue(dim, p) ==
    AsFloat(2 * AbsInt(p[1]) <= dim[1]) * AsFloat(2 * AbsInt(p[2]) <= dim[2])

\* Mutant: the field tagged with the converted grid
RectangularFuncTagsCopy(ap, g) ==
    LET c == as_cartesian(g)
    IN  [field |-> Field([i \in 1..size(g) |-> RectangularValue(ap.dim, c.pts[i])], c),
         out   |-> <<>>]

\* rectangular_aperture.func
RectangularFunc(ap, g) ==
    LET c == as_cartesian(g)
    IN  [field |-> Field([i \in 1..size(g) |-> RectangularValue(ap.dim, c.pts[i])], g),
         out   |-> <<>>]

\* the indices i >= from at which the boolean mask m is set, in order
RECURSIVE MaskIndices(_, _)
MaskIndices(m, from) ==
    IF from > Len(m) THEN <<>>
    ELSE (IF m[from] THEN <<from>> ELSE <<>>) \o MaskIndices(m, from + 1)

\* f[m] *= t, for the masked positions idx and one factor per masked position
MaskedTimes(f, idx, t) ==
    [i \in 1..Len(f) |->
        IF \E j \in 1..Len(idx) : idx[j] = i
        THEN f[i] * t[CHOOSE j \in 1..Len(idx) : idx[j] = i]
        ELSE f[i]]

\* np.abs(np.cos(theta) * x + np.sin(theta) * y) < apothem
EvenTest(F, theta, p, apothem) ==
    AlgLess(F, AlgAbs(F, AlgAdd(AlgScale(p[1], Cos(F, theta)),
                                 AlgScale(p[2], Sin(F, theta)))), apothem)

\* (np.abs(np.sin(theta) * x) + -np.cos(theta) * y) < apothem
OddTest(F, theta, p, apothem) ==
    AlgLess(F, AlgAdd(AlgAbs(F, AlgScale(p[1], Sin(F, theta))),
                      AlgScale(p[2], AlgNeg(Cos(F, theta)))), apothem)

EdgeTest(ap, theta, p) ==
    IF ap.num_sides % 2 = 0
    THEN EvenTest(FieldOf(ap.num_sides), theta, p, ap.apothem)
    ELSE OddTest(FieldOf(ap.num_sides), theta, p, ap.apothem)

\* the loop over thetas, from the k-th angle on
RECURSIVE PolygonLoop(_, _, _, _, _)
PolygonLoop(ap, xy, idx, f, k) ==
    IF k > Len(ap.thetas) THEN f
    ELSE PolygonLoop(ap, xy, idx,
             MaskedTimes(f, idx, [j \in 1..Len(xy) |->
                                     AsFloat(EdgeTest(ap, ap.thetas[k], xy[j]))]),
             k + 1)

\* what the loop prints: print(theta) in the odd branch only
PolygonPrints(ap) == IF ap.num_sides % 2 = 0 THEN <<>> ELSE ap.thetas

\* regular_polygon_aperture.func
PolygonFunc(ap, g) ==
    LET ones == [i \in 1..size(g) |-> 1]
        c    == as_cartesian(g)
        mv   == RectangularFunc(ap.mask, c).field.values
        m    == [i \in 1..size(g) |-> mv[i] # 0]
        idx  == MaskIndices(m, 1)
        xy   == [j \in 1..Len(idx) |-> c.pts[idx[j]]]
        f0   == [i \in 1..size(g) |-> IF m[i] THEN ones[i] ELSE 0]
    IN  [field |-> Field(PolygonLoop(ap, xy, idx, f0, 1), g),
         out   |-> PolygonPrints(ap)]

\* calling the sampling function of an aperture on a grid
Func(ap, g) ==
    IF ap.kind = "circular" THEN CircularFunc(ap, g)
    ELSE IF ap.kind = "rectangular" THEN RectangularFunc(ap, g)
    ELSE PolygonFunc(ap, g)

----------------------------------------------------------------------------
(* Calls of the aperture factories and of the sampling functions *)

Diameters == 1..MaxDiam

Sizes == {<<s>> : s \in 0..MaxSize} \cup {<<w, h>> : w \in 0..MaxSize, h \in 0..MaxSize}

SideInputs == (0..2) \cup ExactSides

CircumDiameters == 1..MaxCircum

\* A factory call does not read the state: after a sampling call it reaches
\* only the states it reaches before one, so the factories are called before
\* the first sampling call.
Fresh == grid = NoGrid

Constructed(op, args, ap) ==
    /\ Fresh
    /\ ctor' = [op |-> op, args |-> args]
    /\ aperture' = ap
    /\ err' = "none"
    /\ grid' = NoGrid
    /\ field' = NoField
    /\ out' = <<>>

MakeCircular ==
    \E d \in Diameters : Constructed("circular_aperture", <<d>>, circular_aperture(d))

MakeRectangular ==
    \E sz \in Sizes : Constructed("rectangular_aperture", sz, rectangular_aperture(sz))

MakePolygon ==
    \E n \in SideInputs, D \in CircumDiameters :
        IF PolygonRaises(n)
        THEN /\ Fresh
             /\ ctor' = [op |-> "regular_polygon_aperture", args |-> <<n, D>>]
             /\ aperture' = NoAperture
             /\ err' = "ValueError"
             /\ grid' = NoGrid
             /\ field' = NoField
             /\ out' = <<>>
        ELSE Constructed("regular_polygon_aperture", <<n, D>>,
                         regular_polygon_aperture(n, D))

MakeHexagonal ==
    \E D \in CircumDiameters :
        Constructed("hexagonal_aperture", <<D>>, hexagonal_aperture(D))

\* A call of the sampling function on a grid.  The state after the call is
\* decided by the closure and the grid alone, so a call on a second grid
\* reaches no state that a first call does not reach: the closure is called
\* on any grid once, and after that again on the same grid.
Sample ==
    /\ aperture.kind # "none"
    /\ \E g \in (IF grid = NoGrid THEN Grids ELSE {grid}) :
        LET r == Func(aperture, g)
        IN  /\ grid' = g
            /\ field' = r.field
            /\ out' = r.out
            /\ err' = "none"
    /\ UNCHANGED <<ctor, aperture>>

----------------------------------------------------------------------------
(* optics/optical_element.py: Detector.  The class in the source is the    *)
(* interface: integrate, read_out and reset raise NotImplementedError.  A  *)
(* concrete detector is modelled from section 4.3 of the specification:    *)
(* an accumulator that integrate adds to, read_out returns and reset clears*)

\* pixels of the detector
NPix == 2

Pixels == 1..NPix

ZeroImage == [p \in Pixels |-> 0]

DetectorWavefronts == [Pixels -> 0..MaxAmp]

\* the intensity of a wavefront: the squared amplitude at each pixel
Intensity(w) == [p \in Pixels |-> w[p] * w[p]]

ImageAdd(a, b) == [p \in Pixels |-> a[p] + b[p]]

\* Mutant: integrate that overwrites the accumulator
IntegratedOverwrite(a, w) == Intensity(w)

\* the accumulator after integrate(wavefront)
Integrated(a, w) == ImageAdd(a, Intensity(w))

\* the image read_out() returns
ReadOutImage(a) == a

\* the accumulator after reset()
ResetImage == ZeroImage

\* the last call of a detector method: its outcome and, for read_out, the
\* image returned
DetectorCall(op, outcome, img) == [op |-> op, outcome |-> outcome, image |-> img]

NoDetectorCall == DetectorCall("none", Return(0), ZeroImage)

\* Detector.integrate, Detector.read_out, Detector.reset of the interface class
DetectorBaseMethod(op) == Raise("NotImplementedError")

DetectorBaseCall ==
    /\ \E op \in {"integrate", "read_out", "reset"} :
          dcall' = DetectorCall(op, DetectorBaseMethod(op), ZeroImage)
    /\ UNCHANGED <<acc, exposures>>

Integrate ==
    /\ Len(exposures) < MaxExposures
    /\ \E w \in DetectorWavefronts :
          /\ acc' = Integrated(acc, w)
          /\ exposures' = Append(exposures, w)
    /\ dcall' = DetectorCall("concrete.integrate", Return(0), ZeroImage)

ReadOut ==
    /\ dcall' = DetectorCall("concrete.read_out", Return(0), ReadOutImage(acc))
    /\ UNCHANGED <<acc, exposures>>

Reset ==
    /\ acc' = ResetImage
    /\ exposures' = <<>>
    /\ dcall' = DetectorCall("concrete.reset", Return(0), ZeroImage)

----------------------------------------------------------------------------
(* util/io.py.  A filename is a sequence of characters; the disk maps each *)
(* filename to the kind of object the file holds.                          *)

DOT == <<".">>

ASDF == <<"a", "s", "d", "f">>

FITS == <<"f", "i", "t", "s">>

GZ == <<"g", "z">>

TXT == <<"t", "x", "t">>

Stems == {<<"x">>}

Endings == {<<>>, DOT \o ASDF, ASDF, DOT \o FITS, FITS, DOT \o FITS \o DOT \o GZ,
            FITS \o DOT \o GZ, DOT \o GZ, DOT \o TXT}

FileNames == {stem \o ending : stem \in Stems, ending \in Endings}

\* str.endswith
endswith(str, suffix) ==
    /\ Len(suffix) <= Len(str)
    /\ SubSeq(str, Len(str) - Len(suffix) + 1, Len(str)) = suffix

\* _guess_file_format(filename); "None" is Python's None
guess_file_format(filename) ==
    IF endswith(filename, ASDF) THEN "asdf"
    ELSE IF endswith(filename, FITS) \/ endswith(filename, FITS \o DOT \o GZ) THEN "fits"
    ELSE "None"

\* fmt after `if fmt is None: fmt = _guess_file_format(filename)`
ResolvedFormat(filename, fmt) == IF fmt = "None" THEN guess_file_format(filename) ELSE fmt

Formats == {"None", "asdf", "fits", "hdf5"}

Absent == "absent"

EmptyDisk == [f \in FileNames |-> Absent]

NumFiles(d) == Cardinality({f \in FileNames : d[f] # Absent})

\* room on the disk for a write to filename
Room(filename) == disk[filename] # Absent \/ NumFiles(disk) < MaxFiles

IoReturn(v) == [kind |-> "return", val |-> v, exc |-> "none"]

IoRaise(e) == [kind |-> "raise", val |-> "none", exc |-> e]

NoIo == [op |-> "none", filename |-> <<>>, fmt |-> "None", overwrite |-> TRUE,
         resolved |-> "None", touched |-> FALSE, hdu |-> "none", outcome |-> IoReturn("none")]

IoCall(op, filename, fmt, overwrite, touched, hdu, outcome) ==
    [op |-> op, filename |-> filename, fmt |-> fmt, overwrite |-> overwrite,
     resolved |-> ResolvedFormat(filename, fmt), touched |-> touched, hdu |-> hdu,
     outcome |-> outcome]

\* the hdu write_fits builds: data.reshape(shape), data.shaped or data
FitsHdu(shape, data) ==
    IF shape # "None" THEN "reshaped"
    ELSE IF data = "field_separated" THEN "shaped"
    ELSE "raw"

\* the overwrite flag write_fits hands to hdu.writeto
WriteFitsOverwrite(overwrite) == TRUE

\* hdu.writeto(filename, overwrite=flag) and AsdfInFits.write_to(filename,
\* overwrite=flag): an existing file is replaced only when flag is set, else
\* the write fails with OSError
WriteTo(filename, flag, kind) ==
    IF disk[filename] # Absent /\ ~flag
    THEN [disk |-> disk, outcome |-> IoRaise("OSError")]
    ELSE [disk |-> [disk EXCEPT ![filename] = kind], outcome |-> IoReturn("none")]

\* asdf.open(filename) and the lookup of f.tree[kind]
OpenTree(filename, kind) ==
    IF disk[filename] = Absent THEN IoRaise("IOError")
    ELSE IF disk[filename] = "array" THEN IoRaise("IOError")
    ELSE IF disk[filename] # kind THEN IoRaise("KeyError")
    ELSE IoReturn(kind)

\* write_fits(data, filename, shape=None, overwrite=True)
write_fits ==
    \E filename \in FileNames, overwrite \in BOOLEAN, shape \in {"None", "given"},
       data \in {"ndarray", "field_separated", "field_unseparated"} :
        /\ Room(filename)
        /\ LET w == WriteTo(filename, WriteFitsOverwrite(overwrite), "array")
           IN  /\ disk' = w.disk
               /\ io' = IoCall("write_fits", filename, "fits", overwrite, TRUE,
                               FitsHdu(shape, data), w.outcome)

\* read_grid(filename, fmt=None) and read_field(filename, fmt=None)
ReadOutcome(kind, filename, fmt) ==
    LET f == ResolvedFormat(filename, fmt)
    IN  IF f = "None" THEN [touched |-> FALSE, outcome |-> IoRaise("ValueError")]
        ELSE IF f \in {"asdf", "fits"}
        THEN [touched |-> TRUE, outcome |-> OpenTree(filename, kind)]
        ELSE [touched |-> FALSE, outcome |-> IoRaise("NotImplementedError")]

read_grid ==
    \E filename \in FileNames, fmt \in Formats :
        LET r == ReadOutcome("grid", filename, fmt)
        IN  /\ io' = IoCall("read_grid", filename, fmt, TRUE, r.touched, "none", r.outcome)
            /\ UNCHANGED disk

read_field ==
    \E filename \in FileNames, fmt \in Formats :
        LET r == ReadOutcome("field", filename, fmt)
        IN  /\ io' = IoCall("read_field", filename, fmt, TRUE, r.touched, "none", r.outcome)
            /\ UNCHANGED disk

\* write_grid(grid, filename, fmt=None, overwrite=True) and
\* write_field(field, filename, fmt=None, overwrite=True): AsdfFile.write_to
\* always replaces, AsdfInFits.write_to takes the overwrite argument
WriteOutcome(kind, filename, fmt, overwrite) ==
    LET f == ResolvedFormat(filename, fmt)
    IN  IF f = "None"
        THEN [touched |-> FALSE, disk |-> disk, outcome |-> IoRaise("ValueError")]
        ELSE IF f = "asdf"
        THEN [touched |-> TRUE] @@ WriteTo(filename, TRUE, kind)
        ELSE IF f = "fits"
        THEN [touched |-> TRUE] @@ WriteTo(filename, overwrite, kind)
        ELSE [touched |-> FALSE, disk |-> disk, outcome |-> IoRaise("NotImplementedError")]

write_grid ==
    \E filename \in FileNames, fmt \in Formats, overwrite \in BOOLEAN :
        /\ Room(filename)
        /\ LET w == WriteOutcome("grid", filename, fmt, overwrite)
           IN  /\ disk' = w.disk
               /\ io' = IoCall("write_grid", filename, fmt, overwrite, w.touched,
                               "none", w.outcome)

write_field ==
    \E filename \in FileNames, fmt \in Formats, overwrite \in BOOLEAN :
        /\ Room(filename)
        /\ LET w == WriteOutcome("field", filename, fmt, overwrite)
           IN  /\ disk' = w.disk
               /\ io' = IoCall("write_field", filename, fmt, overwrite, w.touched,
                               "none", w.outcome)

----------------------------------------------------------------------------
(* The specifications *)

Init ==
    /\ ecall = NoCall
    /\ ctor = NoCtor
    /\ aperture = NoAperture
    /\ grid = NoGrid
    /\ field = NoField
    /\ out = <<>>
    /\ err = "none"
    /\ acc = ZeroImage
    /\ exposures = <<>>
    /\ dcall = NoDetectorCall
    /\ disk = EmptyDisk
    /\ io = NoIo

NextElement ==
    /\ \/ ElementForward
       \/ ElementBackward
       \/ ElementCall
    /\ UNCHANGED <<apVars, detVars, ioVars>>

NextAperture ==
    /\ \/ MakeCircular
       \/ MakeRectangular
       \/ MakePolygon
       \/ MakeHexagonal
       \/ Sample
    /\ UNCHANGED <<elemVars, detVars, ioVars>>

NextDetector ==
    /\ \/ DetectorBaseCall
       \/ Integrate
       \/ ReadOut
       \/ Reset
    /\ UNCHANGED <<elemVars, apVars, ioVars>>

NextIO ==
    /\ \/ write_fits
       \/ read_grid
       \/ write_grid
       \/ read_field
       \/ write_field
    /\ UNCHANGED <<elemVars, apVars, detVars>>

SpecElement == Init /\ [][NextElement]_vars

SpecAperture == Init /\ [][NextAperture]_vars

SpecDetector == Init /\ [][NextDetector]_vars

SpecIO == Init /\ [][NextIO]_vars

----------------------------------------------------------------------------
(* Properties *)

\* C1: when forward(wavefront) returns a value, calling the element returns
\* that value to the caller as a normal return.
C1_CallReturnsForward ==
    (ecall.op = "__call__" /\ ecall.fwd.kind = "return") => ecall.outcome = ecall.fwd

\* the smallest k in 0..top with k*k >= n, for 0 <= n <= top*top
CeilSqrt(n, top) == CHOOSE k \in 0..top : k * k >= n /\ (k = 0 \/ (k - 1) * (k - 1) < n)

\* the radius sqrt(x^2 + y^2) of a Cartesian point is <= d/2, for an integer
\* d: 2 sqrt(x^2 + y^2) <= 2 (|x| + |y|) bounds the root
RadiusWithinHalf(p, d) ==
    CeilSqrt(4 * (p[1] * p[1] + p[2] * p[2]), 2 * (AbsInt(p[1]) + AbsInt(p[2]))) <= d

Sampled == grid # NoGrid

\* C2: for d > 0 a circular aperture is 1 exactly at the points of radius
\* <= d/2, and the Cartesian path and the radius path agree at every point,
\* the points on the boundary circle included.
C2_Circular ==
    (Sampled /\ aperture.kind = "circular" /\ aperture.diameter > 0) =>
        /\ \A i \in 1..size(grid) :
              field.values[i] =
                  AsFloat(RadiusWithinHalf(as_cartesian(grid).pts[i], aperture.diameter))
        /\ field.values = CircularFunc(aperture, as_cartesian(grid)).field.values

\* a polar grid sampled by the radius path has a point on the boundary circle
\* that is off the axes, and a point outside
C2_Witness ==
    /\ Sampled /\ aperture.kind = "circular" /\ grid.system = "polar"
    /\ size(grid) = 2
    /\ \E i \in 1..2 : /\ 2 * grid.pts[i][1] = aperture.diameter
                       /\ Norm(grid.pts[i][2]) = 5
                       /\ field.values[i] = 1
    /\ \E i \in 1..2 : field.values[i] = 0

\* C3: a rectangular aperture of size (w, h) is 1 exactly where |x| <= w/2 and
\* |y| <= h/2, both bounds inclusive; a scalar size s means w = h = s.
C3_Rectangular ==
    (Sampled /\ ctor.op = "rectangular_aperture") =>
        LET w == ctor.args[1]
            h == IF Len(ctor.args) = 1 THEN ctor.args[1] ELSE ctor.args[2]
            c == as_cartesian(grid)
        IN  \A i \in 1..size(grid) :
                field.values[i] = (IF 2 * AbsInt(c.pts[i][1]) <= w /\ 2 * AbsInt(c.pts[i][2]) <= h
                                   THEN 1 ELSE 0)

\* a scalar size, a point on the edge of the square and a point outside
C3_Witness ==
    /\ Sampled /\ ctor.op = "rectangular_aperture" /\ Len(ctor.args) = 1
    /\ size(grid) = 2
    /\ \E i \in 1..2 : /\ 2 * AbsInt(as_cartesian(grid).pts[i][1]) = ctor.args[1]
                       /\ ctor.args[1] > 0
                       /\ field.values[i] = 1
    /\ \E i \in 1..2 : field.values[i] = 0

\* C4: regular_polygon_aperture with num_sides < 3 fails with ValueError at
\* construction, no sampling function is returned and no grid is touched;
\* with num_sides >= 3 neither construction nor sampling raises ValueError.
C4_PolygonGuard ==
    ctor.op = "regular_polygon_aperture" =>
        IF ctor.args[1] < 3
        THEN err = "ValueError" /\ aperture.kind = "none" /\ grid = NoGrid /\ field = NoField
        ELSE err # "ValueError" /\ aperture.kind = "polygon"

C4_Witness ==
    ctor.op = "regular_polygon_aperture" /\ ctor.args[1] = 2 /\ err = "ValueError"

\* the accumulated intensity of a sequence of wavefronts
RECURSIVE SumIntensity(_)
SumIntensity(ws) ==
    IF ws = <<>> THEN ZeroImage
    ELSE ImageAdd(Intensity(Head(ws)), SumIntensity(Tail(ws)))

\* C5: read_out returns the image a single exposure with the combined
\* intensity of the wavefronts integrated since the last reset would give
\* (all zero after a reset), and read_out leaves the accumulator unchanged.
C5_Detector ==
    /\ [](dcall.op = "concrete.read_out" => dcall.image = ImageAdd(ResetImage, SumIntensity(exposures)))
    /\ [][dcall'.op = "concrete.read_out" => acc' = acc]_vars

\* a read_out after two exposures of non-zero intensity
C5_Witness ==
    /\ dcall.op = "concrete.read_out"
    /\ Len(exposures) = 2
    /\ Intensity(exposures[1]) # ZeroImage
    /\ Intensity(exposures[2]) # ZeroImage
    /\ dcall.image = acc

\* C6: a call of a sampling function changes nothing but the returned field
\* and emits no output; a second call on the same grid returns the same values.
C6_Pure ==
    [][grid' # NoGrid =>
          /\ aperture' = aperture
          /\ ctor' = ctor
          /\ out' = <<>>
          /\ (grid = grid' => field' = field)]_vars

\* the index of the last "." of a filename, 0 when it has none
LastDot(name) ==
    IF \E i \in 1..Len(name) : name[i] = "."
    THEN CHOOSE i \in 1..Len(name) :
             name[i] = "." /\ \A j \in (i + 1)..Len(name) : name[j] # "."
    ELSE 0

\* the extension of a filename, with its dot; <<>> when it has none
Extension(name) == IF LastDot(name) = 0 THEN <<>> ELSE SubSeq(name, LastDot(name), Len(name))

\* the format the extension of a filename stands for
ExtensionFormat(name) ==
    LET ext  == Extension(name)
        base == SubSeq(name, 1, LastDot(name) - 1)
    IN  IF ext = DOT \o ASDF THEN "asdf"
        ELSE IF ext = DOT \o FITS THEN "fits"
        ELSE IF ext = DOT \o GZ /\ Extension(base) = DOT \o FITS THEN "fits"
        ELSE "None"

\* C7: without a format argument, a filename whose extension is none of
\* .asdf, .fits, .fits.gz makes read_grid, write_grid, read_field and
\* write_field fail with ValueError before a file is opened or written; the
\* extensions .fits and .fits.gz resolve to "fits" and .asdf to "asdf".
C7_FormatFromExtension ==
    (io.op \in {"read_grid", "write_grid", "read_field", "write_field"} /\ io.fmt = "None") =>
        IF ExtensionFormat(io.filename) = "None"
        THEN io.outcome.exc = "ValueError" /\ ~io.touched
        ELSE io.resolved = ExtensionFormat(io.filename)

\* C8: write_fits with overwrite False does not replace a file that exists.
C8_WriteFitsHonoursOverwrite ==
    [][(io'.op = "write_fits" /\ ~io'.overwrite /\ disk[io'.filename] # Absent) =>
          disk' = disk]_vars

\* the angle of the outward normal of edge j of the polygon the code samples:
\* edges every 2 pi / n, the first normal along +x for an even number of
\* sides and along -y for an odd one
EdgeNormal(n, j) == (IF n % 2 = 0 THEN 0 ELSE 0 - (Pi \div 2)) + j * ((2 * Pi) \div n)

\* the brute-force reference: the point is strictly inside all n half-planes
BruteForce(n, D, p) ==
    \A j \in 0..(n - 1) :
        AlgLess(FieldOf(n),
                AlgAdd(AlgScale(p[1], Cos(FieldOf(n), EdgeNormal(n, j))),
                       AlgScale(p[2], Sin(FieldOf(n), EdgeNormal(n, j)))),
                AlgDivInt(AlgScale(D, Cos(FieldOf(n), Pi \div n)), 2))

CircumDiameter == IF ctor.op = "hexagonal_aperture" THEN ctor.args[1] ELSE ctor.args[2]

\* C9: for an even and for an odd number of sides, and at points inside and
\* outside the bounding box, the symmetry-reduced test gives the value of the
\* brute-force test against all num_sides edges.
C9_PolygonMatchesBruteForce ==
    (Sampled /\ aperture.kind = "polygon") =>
        \A i \in 1..size(grid) :
            field.values[i] =
                AsFloat(BruteForce(aperture.num_sides, CircumDiameter, as_cartesian(grid).pts[i]))

\* an odd polygon sampled at a point inside it and at a point outside the
\* bounding box
C9_Witness ==
    /\ Sampled /\ aperture.kind = "polygon" /\ aperture.num_sides % 2 = 1
    /\ \E i \in 1..size(grid) : field.values[i] = 1
    /\ \E i \in 1..size(grid) :
          AbsInt(as_cartesian(grid).pts[i][2]) > 2 * CircumDiameter

\* an even polygon sampled at a point inside the bounding box and outside the
\* polygon, next to a point inside the polygon
C9_WitnessEven ==
    /\ Sampled /\ aperture.kind = "polygon" /\ aperture.num_sides % 2 = 0
    /\ \E i \in 1..size(grid) : field.values[i] = 1
    /\ \E i \in 1..size(grid) :
          /\ field.values[i] = 0
          /\ AbsInt(as_cartesian(grid).pts[i][1]) <= 2 * CircumDiameter
          /\ AbsInt(as_cartesian(grid).pts[i][2]) <= 2 * CircumDiameter

\* C10: a sampled field has grid.size values, each 0 or 1, the i-th value is
\* the value of the i-th point of the grid, and the field carries the grid
\* that was passed in.
C10_FieldShape ==
    Sampled =>
        /\ Len(field.values) = size(grid)
        /\ \A i \in 1..size(grid) : field.values[i] \in {0, 1}
        /\ \A i \in 1..size(grid) :
              field.values[i] =
                  Func(aperture, [system |-> grid.system, pts |-> <<grid.pts[i]>>]).field.values[1]
        /\ field.grid = grid

\* a polar grid of two points with different values, sampled through the
\* conversion to Cartesian coordinates
C10_Witness ==
    /\ Sampled /\ grid.system = "polar" /\ aperture.kind \in {"rectangular", "polygon"}
    /\ field.values = <<1, 0>>

====
